---- MODULE Spec2Model ----
(***************************************************************************)
(* State-machine model of QASystem (src/QA.py): the keyword store kept in  *)
(* two sqlite tables, qa_entries and qa_values, reached through one        *)
(* long-lived connection.                                                  *)
(*                                                                         *)
(* db   is what the connection sees (committed rows plus the rows of the   *)
(*      transaction that is open on it);                                   *)
(* disk is what is committed.                                              *)
(* Both hold the two tables and the two AUTOINCREMENT counters, which      *)
(* sqlite keeps in a table of the same database (so they roll back too).   *)
(***************************************************************************)
EXTENDS Integers, Sequences, FiniteSets, TLC

VARIABLES conn, db, disk, ret

vars == <<conn, db, disk, ret>>

----------------------------------------------------------------------------
(* Bounds of the model *)

\* Spec: no entry id above this one is handed out
MaxEntryId == 2

\* SpecResolve: no entry id above this one is handed out
MaxResolveId == 3

----------------------------------------------------------------------------
(* Values of the database schema and of Python *)

\* status CHECK(status IN ('ACTIVE', 'INACTIVE', 'ARCHIVED'))
Statuses == {"ACTIVE", "INACTIVE", "ARCHIVED"}

\* match_type CHECK(match_type IN ('EXACT', 'FUZZY', 'REGEX'))
MatchTypes == {"EXACT", "FUZZY", "REGEX"}

\* value_type CHECK(value_type IN ('TEXT', 'IMAGE_URL', 'FILE_URL', 'MARKDOWN'))
ValueTypes == {"TEXT", "IMAGE_URL", "FILE_URL", "MARKDOWN"}

\* Python's None, bound by sqlite3 as SQL NULL
None == "<None>"

\* a str holding a lone surrogate: sqlite3 cannot encode it as UTF-8 and the
\* binding raises UnicodeEncodeError, which is not a sqlite3.Error
Surrogate == "<surrogate>"

----------------------------------------------------------------------------
(* The two tables *)

EmptyDb == [entries |-> {}, values |-> {}, seq_e |-> 0, seq_v |-> 0]

\* dict.get that never finds the key
DictGetDefault(d, key, default) == default

\* dict.get(key, default)
DictGet(d, key, default) == IF key \in DOMAIN d THEN d[key] ELSE default

\* INSERT INTO qa_entries: the row constraints of the table
EntryConstraintsOk(match_type, status) ==
    /\ match_type \in MatchTypes
    /\ status \in Statuses

\* INSERT INTO qa_values: the row constraints of the table
ValueConstraintsOk(value_type, value_content) ==
    /\ value_type \in ValueTypes
    /\ value_content # None

\* binding the parameters of the INSERT INTO qa_values
BindOk(value_content) == value_content # Surrogate

InsertEntry(d, eid, g, k, match_type, status, priority) ==
    [d EXCEPT !.entries = @ \cup { [entry_id |-> eid, group_identifier |-> g,
                                    keyword |-> k, match_type |-> match_type,
                                    status |-> status, priority |-> priority] },
              !.seq_e = eid]

InsertValue(d, eid, value_type, value_content, order_num) ==
    [d EXCEPT !.values = @ \cup { [value_id |-> d.seq_v + 1, entry_id |-> eid,
                                   value_type |-> value_type,
                                   value_content |-> value_content,
                                   order_num |-> order_num] },
              !.seq_v = d.seq_v + 1]

\* the loop over enumerate(values) with the default of the column (0) for an
\* item that names no order
RECURSIVE InsertValuesColumnDefault(_, _, _, _)
InsertValuesColumnDefault(d, eid, values, i) ==
    IF i > Len(values) THEN [db |-> d, end |-> "ok"]
    ELSE LET value_item    == values[i]
             value_type    == DictGet(value_item, "type", "TEXT")
             value_content == value_item["content"]
             order_num     == DictGet(value_item, "order", 0)
         IN  IF ~BindOk(value_content) THEN [db |-> d, end |-> "raise"]
             ELSE IF ~ValueConstraintsOk(value_type, value_content)
                  THEN [db |-> d, end |-> "sqlite_error"]
             ELSE InsertValuesColumnDefault(
                      InsertValue(d, eid, value_type, value_content, order_num),
                      eid, values, i + 1)

\* the loop over enumerate(values), from index i (1-based here, 0-based in the
\* code): the database it leaves and how it ended
RECURSIVE InsertValues(_, _, _, _)
InsertValues(d, eid, values, i) ==
    IF i > Len(values) THEN [db |-> d, end |-> "ok"]
    ELSE LET value_item    == values[i]
             value_type    == DictGet(value_item, "type", "TEXT")
             value_content == value_item["content"]
             order_num     == DictGet(value_item, "order", i - 1)
         IN  IF ~BindOk(value_content) THEN [db |-> d, end |-> "raise"]
             ELSE IF ~ValueConstraintsOk(value_type, value_content)
                  THEN [db |-> d, end |-> "sqlite_error"]
             ELSE InsertValues(InsertValue(d, eid, value_type, value_content, order_num),
                               eid, values, i + 1)

\* the checks of add_qa without the one for an empty list
ValuesHaveContent(values) ==
    \A i \in 1..Len(values) : "content" \in DOMAIN values[i]

\* the checks add_qa makes before it touches the database
ValuesValid(values) ==
    /\ values # << >>
    /\ \A i \in 1..Len(values) : "content" \in DOMAIN values[i]

----------------------------------------------------------------------------
(* The queries *)

\* qa_entries e JOIN qa_values v ON e.entry_id = v.entry_id; value_id is kept
\* so that two rows with equal columns stay two rows
Joined(d) ==
    { [keyword |-> e.keyword, group_identifier |-> e.group_identifier,
       status |-> e.status, value_type |-> v.value_type,
       value_content |-> v.value_content, priority |-> e.priority,
       order_num |-> v.order_num, entry_id |-> e.entry_id, value_id |-> v.value_id] :
      <<e, v>> \in { p \in d.entries \X d.values : p[1].entry_id = p[2].entry_id } }

\* ORDER BY e.priority DESC, v.order_num ASC: y comes strictly before x
Before(y, x) ==
    \/ y.priority > x.priority
    \/ y.priority = x.priority /\ y.order_num < x.order_num

\* every sequence the ORDER BY allows for the rows S: rows that compare equal
\* come in an order sqlite is free to choose
RECURSIVE Orderings(_)
Orderings(S) ==
    IF S = {} THEN { << >> }
    ELSE UNION { { <<r>> \o t : t \in Orderings(S \ {r}) } :
                 r \in { x \in S : \A y \in S : ~Before(y, x) } }

\* the WHERE clause of get_qa without its condition on status
GetRowsAnyStatus(d, g, k) ==
    { r \in Joined(d) : r.group_identifier = g /\ r.keyword = k }

\* the WHERE clause of get_qa
GetRows(d, g, k) ==
    { r \in Joined(d) : r.group_identifier = g /\ r.keyword = k /\ r.status = "ACTIVE" }

\* the WHERE clause of get_qa_by_group
GroupRows(d, g) ==
    { r \in Joined(d) : r.group_identifier = g /\ r.status = "ACTIVE" }

\* {'type': row['value_type'], 'content': row['value_content'], 'order': row['order_num']}
Item(row) == [type |-> row.value_type, content |-> row.value_content, order |-> row.order_num]

\* list.sort(key=lambda x: x['order']): stable
RECURSIVE SortByOrder(_)
SortByOrder(s) ==
    IF s = << >> THEN << >>
    ELSE LET t == SortByOrder(SubSeq(s, 1, Len(s) - 1))
             x == s[Len(s)]
             n == Cardinality({ i \in 1..Len(t) : t[i].order <= x.order })
         IN  SubSeq(t, 1, n) \o <<x>> \o SubSeq(t, n + 1, Len(t))

\* the loop of get_qa: the rows up to the first whose priority is not the first row's
RECURSIVE TopRows(_, _, _)
TopRows(results, top_priority, i) ==
    IF i > Len(results) \/ results[i].priority # top_priority THEN << >>
    ELSE <<Item(results[i])>> \o TopRows(results, top_priority, i + 1)

\* get_qa from the fetched rows on
GetFrom(results) ==
    IF results = << >> THEN << >>
    ELSE SortByOrder(TopRows(results, results[1].priority, 1))

\* get_qa_by_group from the fetched rows on: a dict, modelled as a function from
\* the keywords met to their lists; the empty result is the empty list
GroupFrom(results) ==
    IF results = << >> THEN << >>
    ELSE LET Only(kw) ==
                 LET IsKw(row) == row.keyword = kw
                     rows == SelectSeq(results, IsKw)
                 IN  [i \in 1..Len(rows) |-> Item(rows[i])]
         IN  [kw \in { results[i].keyword : i \in 1..Len(results) } |-> SortByOrder(Only(kw))]

\* what get_qa(g, k) may return on database d
GetResults(d, g, k) == { GetFrom(results) : results \in Orderings(GetRows(d, g, k)) }

\* what get_qa_by_group(g) may return on database d
GroupResults(d, g) == { GroupFrom(results) : results \in Orderings(GroupRows(d, g)) }

\* a DELETE that, like the two queries, takes only ACTIVE entries
DeletedActive(d, g, k) ==
    { e \in d.entries : e.group_identifier = g /\ e.keyword = k /\ e.status = "ACTIVE" }

\* a DELETE that takes the entries the JOIN of the two queries shows: those
\* that own a value
DeletedJoined(d, g, k) ==
    { e \in d.entries : /\ e.group_identifier = g /\ e.keyword = k
                        /\ \E v \in d.values : v.entry_id = e.entry_id }

\* DELETE FROM qa_entries WHERE group_identifier = ? AND keyword = ?, with
\* FOREIGN KEY (entry_id) ... ON DELETE CASCADE and PRAGMA foreign_keys = ON
Deleted(d, g, k) == { e \in d.entries : e.group_identifier = g /\ e.keyword = k }

\* the DELETE on tables whose ids are plain rowids (no AUTOINCREMENT): the next
\* id is one above the largest id left
DeleteRowsRowid(d, g, k) ==
    LET gone == { e.entry_id : e \in Deleted(d, g, k) }
        left == { e.entry_id : e \in d.entries } \ gone
    IN  [d EXCEPT !.entries = { e \in @ : e.entry_id \notin gone },
                  !.values = { v \in @ : v.entry_id \notin gone },
                  !.seq_e = IF left = {} THEN 0
                            ELSE CHOOSE n \in left : \A o \in left : o <= n]

DeleteRows(d, g, k) ==
    LET gone == { e.entry_id : e \in Deleted(d, g, k) }
    IN  [d EXCEPT !.entries = { e \in @ : e.entry_id \notin gone },
                  !.values = { v \in @ : v.entry_id \notin gone }]

----------------------------------------------------------------------------
\* what a call leaves in ret: the call (op, group, keyword, values), the entry id
\* add_qa got from lastrowid (0 when it inserted no entry row), how the call ended
\* (kind) and what it returned (out, for the two queries)
Ret(op, g, k, values, eid, kind, out) ==
    [op |-> op, group |-> g, keyword |-> k, values |-> values, eid |-> eid,
     kind |-> kind, out |-> out]

Init ==
    /\ conn = TRUE
    /\ db = EmptyDb
    /\ disk = EmptyDb
    /\ ret = Ret("init", "", "", << >>, 0, "none", << >>)

\* add_qa(group_identifier, keyword, values, match_type, status, priority)
add_qa(g, k, values, match_type, status, priority) ==
    IF ~ValuesValid(values)
    THEN /\ ret' = Ret("add", g, k, values, 0, "ValueError", << >>)
         /\ UNCHANGED <<conn, db, disk>>
    ELSE IF ~conn
    THEN /\ ret' = Ret("add", g, k, values, 0, "AttributeError", << >>)
         /\ UNCHANGED <<conn, db, disk>>
    ELSE IF ~EntryConstraintsOk(match_type, status)
    THEN /\ db' = disk
         /\ ret' = Ret("add", g, k, values, 0, "None", << >>)
         /\ UNCHANGED <<conn, disk>>
    ELSE LET entry_id == db.seq_e + 1
             out == InsertValues(InsertEntry(db, entry_id, g, k, match_type, status, priority),
                                 entry_id, values, 1)
         IN  /\ CASE out.end = "raise" ->
                       /\ db' = out.db
                       /\ disk' = disk
                       /\ ret' = Ret("add", g, k, values, entry_id, "UnicodeEncodeError", << >>)
                  [] out.end = "sqlite_error" ->
                       /\ db' = disk
                       /\ disk' = disk
                       /\ ret' = Ret("add", g, k, values, entry_id, "None", << >>)
                  [] out.end = "ok" ->
                       /\ db' = out.db
                       /\ disk' = out.db
                       /\ ret' = Ret("add", g, k, values, entry_id, "entry_id", << >>)
             /\ UNCHANGED conn

\* get_qa(group_identifier, keyword);
\* fault: the statement raises sqlite3.Error (a storage failure)
get_qa(g, k, fault) ==
    /\ IF ~conn THEN ret' = Ret("get", g, k, << >>, 0, "AttributeError", << >>)
       ELSE IF fault THEN ret' = Ret("get", g, k, << >>, 0, "sqlite_error", << >>)
       ELSE \E results \in Orderings(GetRows(db, g, k)) :
               ret' = Ret("get", g, k, << >>, 0, "list", GetFrom(results))
    /\ UNCHANGED <<conn, db, disk>>

\* get_qa_by_group(group_identifier)
get_qa_by_group(g, fault) ==
    /\ IF ~conn THEN ret' = Ret("list", g, "", << >>, 0, "AttributeError", << >>)
       ELSE IF fault THEN ret' = Ret("list", g, "", << >>, 0, "sqlite_error", << >>)
       ELSE \E results \in Orderings(GroupRows(db, g)) :
               ret' = Ret("list", g, "", << >>, 0, "dict", GroupFrom(results))
    /\ UNCHANGED <<conn, db, disk>>

\* delete_qa(group_identifier, keyword)
delete_qa(g, k, fault) ==
    IF ~conn
    THEN /\ ret' = Ret("delete", g, k, << >>, 0, "AttributeError", << >>)
         /\ UNCHANGED <<conn, db, disk>>
    ELSE IF fault
    THEN /\ db' = disk
         /\ ret' = Ret("delete", g, k, << >>, 0, "failed", << >>)
         /\ UNCHANGED <<conn, disk>>
    ELSE /\ db' = DeleteRows(db, g, k)
         /\ disk' = DeleteRows(db, g, k)
         /\ ret' = Ret("delete", g, k, << >>, 0,
                       IF Cardinality(Deleted(db, g, k)) > 0 THEN "deleted" ELSE "not_found",
                       << >>)
         /\ UNCHANGED conn

\* a close() that takes the connection for open
closeUnguarded ==
    /\ conn' = FALSE
    /\ db' = IF conn THEN disk ELSE db
    /\ ret' = Ret("close", "", "", << >>, 0, IF conn THEN "none" ELSE "AttributeError", << >>)
    /\ UNCHANGED disk

\* close(): closing the connection drops the transaction open on it
close ==
    /\ conn' = FALSE
    /\ db' = IF conn THEN disk ELSE db
    /\ ret' = Ret("close", "", "", << >>, 0, "none", << >>)
    /\ UNCHANGED disk

----------------------------------------------------------------------------
(* The callers: every operation, with its arguments drawn from the domains *)

\* cap: the model hands out no entry id above it
AddOver(Gs, Ks, Ls, Ss, Ps, cap) ==
    \E g \in Gs, k \in Ks, values \in Ls, status \in Ss, priority \in Ps :
        /\ db.seq_e < cap \/ ~ValuesValid(values) \/ ~conn
        /\ add_qa(g, k, values, "EXACT", status, priority)

GetOver(Gs, Ks) == \E g \in Gs, k \in Ks, fault \in BOOLEAN : get_qa(g, k, fault)

ListOver(Gs) == \E g \in Gs, fault \in BOOLEAN : get_qa_by_group(g, fault)

DeleteOver(Gs, Ks) == \E g \in Gs, k \in Ks, fault \in BOOLEAN : delete_qa(g, k, fault)

----------------------------------------------------------------------------
(* Spec: add_qa as the plugin calls it (status and priority at their         *)
(* defaults), on two groups and two keywords, with value lists that are      *)
(* stored, rejected, rolled back, or that raise in the middle of the inserts. *)

Groups == {"A", "B"}

Keywords == {"k1", "k2"}

\* {'content': 'a'}: type and order left to their defaults
ItemA == [content |-> "a"]

\* an item with every key, an empty content and an order above its position
ItemB == [type |-> "IMAGE_URL", content |-> "", order |-> 2]

ValueLists ==
    { <<ItemB, ItemA>>,
      <<ItemA, [content |-> Surrogate]>>,
      << >>,
      <<[type |-> "TEXT"]>>,
      <<ItemA, [content |-> None]>> }

Add == AddOver(Groups, Keywords, ValueLists, {"ACTIVE"}, {0}, MaxEntryId)

Get == GetOver(Groups, Keywords)

List == ListOver(Groups)

Delete == DeleteOver(Groups, Keywords)

Next == Add \/ Get \/ List \/ Delete

Spec == Init /\ [][Next]_vars

----------------------------------------------------------------------------
(* SpecKeys: entries of two statuses and two priorities on two groups and    *)
(* two keywords, every add storing its two values.                           *)

AddK == AddOver(Groups, Keywords, { <<ItemB, ItemA>> }, {"ACTIVE", "INACTIVE"}, {1, 5},
                MaxEntryId)

NextKeys == AddK \/ Get \/ List \/ Delete

SpecKeys == Init /\ [][NextKeys]_vars

----------------------------------------------------------------------------
(* SpecResolve: several entries of one keyword, of every status, at two      *)
(* priorities, with one value each or (the insert of the value raising) none. *)

ResolveLists == { <<ItemA>>, <<[content |-> Surrogate]>> }

AddR == AddOver({"A"}, {"k1"}, ResolveLists, Statuses, {1, 5}, MaxResolveId)

GetR == GetOver({"A"}, {"k1"})

ListR == ListOver({"A"})

DeleteR == DeleteOver({"A"}, {"k1"})

NextResolve == AddR \/ GetR \/ ListR \/ DeleteR

SpecResolve == Init /\ [][NextResolve]_vars
----------------------------------------------------------------------------
(* SpecClose: the repository until and after close(), on one group, with     *)
(* value lists that are stored, rejected, or that raise in the middle of the *)
(* inserts and leave a transaction open.                                     *)

CloseLists == { <<ItemA>>, <<ItemA, [content |-> Surrogate]>>, << >> }

AddC == AddOver({"A"}, Keywords, CloseLists, {"ACTIVE"}, {0}, MaxEntryId)

GetC == GetOver({"A"}, Keywords)

ListC == ListOver({"A"})

DeleteC == DeleteOver({"A"}, Keywords)

Close == close

NextClose == AddC \/ GetC \/ ListC \/ DeleteC \/ Close

SpecClose == Init /\ [][NextClose]_vars

----------------------------------------------------------------------------
(* SpecOrder: value lists of two and three items that name no order, or one  *)
(* above its position, on one group.                                         *)

\* an item that names its type and no order
ItemC == [type |-> "MARKDOWN", content |-> "c"]

OrderLists == { <<ItemC, ItemA>>, <<ItemA, ItemC, ItemA>>, <<ItemB, ItemA>> }

AddO == AddOver({"A"}, Keywords, OrderLists, {"ACTIVE"}, {0}, MaxEntryId)

NextOrder == AddO \/ GetC \/ ListC \/ DeleteC

SpecOrder == Init /\ [][NextOrder]_vars

----------------------------------------------------------------------------
(* Vocabulary of the claims *)

KeyIs(e, g, k) == e.group_identifier = g /\ e.keyword = k

\* the value rows of d owned by the entries E
ValuesOf(d, E) == { v \in d.values : \E e \in E : e.entry_id = v.entry_id }

\* the item a query returns for the value row v
ItemOf(v) == [type |-> v.value_type, content |-> v.value_content, order |-> v.order_num]

\* res lists value rows of V, no row twice
ListsSomeOf(res, V) ==
    \E f \in [1..Len(res) -> V] :
        /\ \A i, j \in 1..Len(res) : f[i] = f[j] => i = j
        /\ \A i \in 1..Len(res) : res[i] = ItemOf(f[i])

\* res lists every value row of V, each once
ListsAllOf(res, V) == Len(res) = Cardinality(V) /\ ListsSomeOf(res, V)

AscendingOrder(res) ==
    \A i, j \in 1..Len(res) : i < j => res[i].order <= res[j].order

\* res holds one item per value of the list given to add_qa, with its type
\* (TEXT when the value names none) and content
OneItemPerValue(values, res) ==
    /\ Len(res) = Len(values)
    /\ \E p \in Permutations(1..Len(values)) :
          \A i \in 1..Len(values) :
              /\ res[p[i]].content = values[i].content
              /\ res[p[i]].type = IF "type" \in DOMAIN values[i] THEN values[i].type ELSE "TEXT"

----------------------------------------------------------------------------
(* C1. Round trip: when the store holds no entry for (group, keyword), an    *)
(* add_qa(group, keyword, values) that succeeds makes get_qa(group, keyword)  *)
(* return exactly one item per value given, with that value's type and       *)
(* content, in ascending order_num.                                          *)
C1_RoundTrip ==
    [][ ( /\ ret'.op = "add"
          /\ ret'.kind = "entry_id"
          /\ \A e \in db.entries : ~KeyIs(e, ret'.group, ret'.keyword)
          /\ \A e \in db'.entries : e.entry_id = ret'.eid => e.status = "ACTIVE" )
        => \A res \in GetResults(db', ret'.group, ret'.keyword) :
              OneItemPerValue(ret'.values, res) /\ AscendingOrder(res) ]_vars

\* get_qa has returned the two values of an add in the order of their
\* order_num, which is the reverse of the order they were given in
C1_Witness ==
    /\ ret.op = "get"
    /\ ret.out = << [type |-> "TEXT", content |-> "a", order |-> 1],
                    [type |-> "IMAGE_URL", content |-> "", order |-> 2] >>
    /\ Cardinality({ e \in db.entries : KeyIs(e, ret.group, ret.keyword) }) = 1
    /\ Cardinality(db.entries) = 2

----------------------------------------------------------------------------
(* C7. Atomicity of add: an add_qa that fails after it inserted its entry    *)
(* row returns None, and neither that entry row nor a value row of it is in  *)
(* the tables afterwards.                                                    *)
C7_AddAtomic ==
    (ret.op = "add" /\ ret.eid # 0 /\ ret.kind # "entry_id")
    => /\ ret.kind = "None"
       /\ \A e \in db.entries \cup disk.entries : e.entry_id # ret.eid
       /\ \A v \in db.values \cup disk.values : v.entry_id # ret.eid

(* C7, the part on later operations: what is committed holds no value of an  *)
(* entry whose add_qa did not return its id. Every add_qa of Spec that       *)
(* returns an id stores two values, so a committed entry with one value is   *)
(* the rest of a failed add_qa.                                              *)
C7_NoPartialCommit ==
    \A e \in disk.entries : Cardinality(ValuesOf(disk, {e})) # 1

----------------------------------------------------------------------------
(* C8. Validation before write: add_qa with an empty value list, or with an  *)
(* item that has no content key, raises ValueError and leaves both tables    *)
(* and both id counters as they were.                                        *)
C8_ValidationBeforeWrite ==
    [][ ( /\ ret'.op = "add"
          /\ \/ ret'.values = << >>
             \/ \E i \in 1..Len(ret'.values) : "content" \notin DOMAIN ret'.values[i] )
        => ret'.kind = "ValueError" /\ db' = db /\ disk' = disk ]_vars

\* an add_qa whose item has no content was rejected while the store held rows
C8_Witness ==
    /\ ret.op = "add"
    /\ ret.kind = "ValueError"
    /\ ret.values = << [type |-> "TEXT"] >>
    /\ db.values # {}

\* an add_qa with an empty list was rejected while the store held rows
C8_WitnessEmpty ==
    /\ ret.op = "add"
    /\ ret.kind = "ValueError"
    /\ ret.values = << >>
    /\ db.values # {}

----------------------------------------------------------------------------
(* C9. Non-empty content: no stored value has an empty value_content (the    *)
(* empty string or NULL).                                                    *)
C9_ContentNonEmpty ==
    \A v \in db.values \cup disk.values : v.value_content \notin {"", None}

----------------------------------------------------------------------------
(* C10. Scope isolation: an add_qa or a delete_qa on one group leaves what   *)
(* get_qa and get_qa_by_group return for every other group unchanged.        *)
C10_ScopeIsolation ==
    [][ ret'.op \in {"add", "delete"}
        => \A g \in Groups \ {ret'.group} :
              /\ GroupResults(db', g) = GroupResults(db, g)
              /\ \A k \in Keywords : GetResults(db', g, k) = GetResults(db, g, k) ]_vars

----------------------------------------------------------------------------
(* C6. Cascade delete: after a delete_qa(group, keyword) that did not fail,  *)
(* no entry of (group, keyword) is left, whatever its status or priority,    *)
(* and no value of such an entry; get_qa(group, keyword) returns the empty   *)
(* list; the entries and values of every other (group, keyword) are the same *)
(* as before.                                                                *)
C6_CascadeDelete ==
    [][ (ret'.op = "delete" /\ ret'.kind \in {"deleted", "not_found"})
        => LET gone == { e \in db.entries : KeyIs(e, ret'.group, ret'.keyword) }
           IN  /\ \A e \in db'.entries : ~KeyIs(e, ret'.group, ret'.keyword)
               /\ ValuesOf(db', gone) = {}
               /\ GetResults(db', ret'.group, ret'.keyword) = { << >> }
               /\ db'.entries = db.entries \ gone
               /\ db'.values = db.values \ ValuesOf(db, gone)
               /\ ret'.kind = "deleted" <=> gone # {} ]_vars

\* a delete_qa has removed entries while an INACTIVE entry of another keyword
\* of the same group and its values stay
C6_Witness ==
    /\ ret.op = "delete"
    /\ ret.kind = "deleted"
    /\ \E e \in db.entries :
          /\ e.group_identifier = ret.group
          /\ e.keyword # ret.keyword
          /\ e.status = "INACTIVE"
          /\ Cardinality(ValuesOf(db, {e})) = 2

----------------------------------------------------------------------------
(* The ACTIVE entries of (g, k), and those of them at the highest priority *)

ActiveEntries(g, k) == { e \in db.entries : KeyIs(e, g, k) /\ e.status = "ACTIVE" }

TopEntries(g, k) ==
    { e \in ActiveEntries(g, k) : \A f \in ActiveEntries(g, k) : f.priority <= e.priority }

(* C2. Priority selection: get_qa(group, keyword) returns only values of     *)
(* ACTIVE entries whose priority is the highest among the ACTIVE entries of  *)
(* (group, keyword).                                                         *)
C2_PrioritySelection ==
    \A g \in Groups, k \in Keywords :
        \A res \in GetResults(db, g, k) : ListsSomeOf(res, ValuesOf(db, TopEntries(g, k)))

(* C3. get_qa_by_group applies the priority rule of get_qa to each keyword:  *)
(* the list it gives for a keyword is one get_qa gives for that keyword.     *)
C3_ListEqualsGet ==
    \A g \in Groups :
        \A m \in GroupResults(db, g) :
            \A k \in DOMAIN m : m[k] \in GetResults(db, g, k)

(* C4. Priority tie-merge: when several ACTIVE entries of (group, keyword)   *)
(* share the highest priority, get_qa returns every value of every one of    *)
(* them, each once, in ascending order_num.                                  *)
C4_TieMerge ==
    \A g \in Groups, k \in Keywords :
        Cardinality(TopEntries(g, k)) >= 2
        => \A res \in GetResults(db, g, k) :
              ListsAllOf(res, ValuesOf(db, TopEntries(g, k))) /\ AscendingOrder(res)

(* C5. Status filtering: get_qa and get_qa_by_group return no value of an    *)
(* INACTIVE or ARCHIVED entry, whatever its priority, and such an entry      *)
(* hides no ACTIVE entry: a keyword with a value of an ACTIVE entry has a    *)
(* non-empty result.                                                         *)
C5_StatusFiltering ==
    \A g \in Groups, k \in Keywords :
        LET active == ValuesOf(db, ActiveEntries(g, k))
        IN  /\ \A res \in GetResults(db, g, k) :
                  /\ ListsSomeOf(res, active)
                  /\ active # {} => res # << >>
            /\ \A m \in GroupResults(db, g) :
                  /\ k \in DOMAIN m => ListsSomeOf(m[k], active)
                  /\ active # {} => k \in DOMAIN m

\* get_qa has returned the value of an ACTIVE entry of priority 1 while an
\* INACTIVE and an ARCHIVED entry of the keyword have priority 5 and a value
C5_Witness ==
    /\ ret.op = "get"
    /\ ret.out = << [type |-> "TEXT", content |-> "a", order |-> 0] >>
    /\ \E e \in ActiveEntries(ret.group, ret.keyword) : e.priority = 1
    /\ \A s \in {"INACTIVE", "ARCHIVED"} :
          \E e \in db.entries :
              /\ KeyIs(e, ret.group, ret.keyword)
              /\ e.status = s
              /\ e.priority = 5
              /\ ValuesOf(db, {e}) # {}

----------------------------------------------------------------------------
(* C11. Delete outcomes: delete_qa(group, keyword) reports 'deleted' only    *)
(* when an entry of (group, keyword) existed before the call and 'not found' *)
(* only when none did; when the storage raises no error it reports 'deleted' *)
(* if an entry existed and 'not found' if none did, never 'failed'; so a     *)
(* delete_qa of the key directly after one that reported 'deleted' reports   *)
(* 'not found'.                                                              *)
C11_DeleteOutcomes ==
    [][ \A g \in Groups, k \in Keywords :
          LET existed == \E e \in db.entries : KeyIs(e, g, k)
              again   == /\ ret.op = "delete" /\ ret.kind = "deleted"
                         /\ ret.group = g /\ ret.keyword = k
          IN  /\ (ret'.op = "delete" /\ ret'.group = g /\ ret'.keyword = k)
                 => /\ ret'.kind \in {"deleted", "not_found", "failed"}
                    /\ ret'.kind = "deleted" => existed
                    /\ ret'.kind = "not_found" => ~existed
                    /\ again => ret'.kind # "deleted"
              /\ delete_qa(g, k, FALSE)
                 => /\ ret'.kind = (IF existed THEN "deleted" ELSE "not_found")
                    /\ again => ret'.kind = "not_found" ]_vars

\* a delete_qa has reported 'not found' on a store from which every entry
\* that was committed (two of them) has been deleted
C11_Witness ==
    /\ ret.op = "delete"
    /\ ret.kind = "not_found"
    /\ disk.seq_e >= 2
    /\ db.entries = {}

----------------------------------------------------------------------------
(* C12. Key set of get_qa_by_group: the keys of what get_qa_by_group(group)  *)
(* returns are exactly the keywords with at least one ACTIVE entry in the    *)
(* group, and every key maps to a non-empty list.                            *)
C12_ListKeys ==
    \A g \in Groups :
        \A m \in GroupResults(db, g) :
            /\ DOMAIN m = { k \in Keywords : ActiveEntries(g, k) # {} }
            /\ \A k \in DOMAIN m : m[k] # << >>

----------------------------------------------------------------------------
(* C13. Not found is told apart from failure: what get_qa and                *)
(* get_qa_by_group return when the storage raises an error differs from what *)
(* they return when nothing matches, and get_qa_by_group on a group with no  *)
(* ACTIVE entry returns an empty mapping.                                    *)
C13_NotFoundDistinct ==
    /\ (ret.op = "get" /\ ret.kind = "sqlite_error") => ret.out # GetFrom(<< >>)
    /\ (ret.op = "list" /\ ret.kind = "sqlite_error") => ret.out # GroupFrom(<< >>)
    /\ ( /\ ret.op = "list" /\ ret.kind = "dict"
         /\ \A k \in Keywords : ActiveEntries(ret.group, k) = {} )
       => DOMAIN ret.out = {}

----------------------------------------------------------------------------
(* C14. close is idempotent: close() never raises, whatever the state it is  *)
(* called in (a transaction left open, an already closed repository); after  *)
(* it the repository has no connection and no cursor, and a close() of a     *)
(* closed repository leaves the connection state and both tables unchanged.  *)
C14_CloseIdempotent ==
    [][ ret'.op = "close"
        => /\ ret'.kind = "none"
           /\ conn' = FALSE
           /\ ~conn => (conn' = conn /\ db' = db /\ disk' = disk) ]_vars

\* close() has been called on a store with one committed entry: the connection
\* is gone and sees nothing but what is committed
C14_Witness ==
    /\ ret.op = "close"
    /\ conn = FALSE
    /\ disk.entries # {}
    /\ db = disk
    /\ disk.seq_e = 1

----------------------------------------------------------------------------
(* C15. No fault escapes: add_qa, delete_qa, get_qa and get_qa_by_group end  *)
(* by returning (an id, None, an outcome, a list, a dict) or, for invalid    *)
(* values, by the ValueError of the validation; no other exception reaches   *)
(* the caller, in any state, the closed one included.                        *)
C15_NoFaultEscapes ==
    ret.op \in {"add", "delete", "get", "list"}
    => ret.kind \in {"entry_id", "None", "ValueError", "deleted", "not_found", "failed",
                     "list", "dict", "sqlite_error"}

(* C15 on the closed repository alone *)
C15_ClosedReturns ==
    conn = FALSE => ret.kind # "AttributeError"

----------------------------------------------------------------------------
(* C16. No partial state is observable. The callers share one connection and *)
(* every method runs to its end before another caller's method starts, so    *)
(* the interleavings are the sequences of whole calls. A get_qa that comes   *)
(* directly after an add_qa of the same key, which held no other entry,      *)
(* returns either nothing or one item per value of that add_qa, and nothing  *)
(* when the add_qa did not return an id.                                     *)
C16_NoPartialRead ==
    [][ ( /\ ret.op = "add"
          /\ ret'.op = "get" /\ ret'.kind = "list"
          /\ ret'.group = ret.group /\ ret'.keyword = ret.keyword
          /\ \A e \in db.entries : KeyIs(e, ret.group, ret.keyword) => e.entry_id = ret.eid )
        => /\ Len(ret'.out) \in {0, Len(ret.values)}
           /\ ret.kind # "entry_id" => ret'.out = << >> ]_vars

----------------------------------------------------------------------------
(* C17. Ownership: in what is committed, every entry owns at least one value *)
(* and every value belongs to an entry that is there.                        *)
C17_Ownership ==
    /\ \A e \in disk.entries : ValuesOf(disk, {e}) # {}
    /\ \A v \in disk.values : \E e \in disk.entries : e.entry_id = v.entry_id

(* C17, the part on values alone: no value without its entry, committed or   *)
(* in the open transaction.                                                  *)
C17_NoOrphanValue ==
    \A v \in db.values : \E e \in db.entries : e.entry_id = v.entry_id

----------------------------------------------------------------------------
(* C18. Default ordering: an add_qa that succeeds stores, for the item at    *)
(* zero-based position i of its list, a value whose order_num is the item's  *)
(* order when it names one and i when it names none; when no item names an   *)
(* order and the key held no entry, get_qa returns the items in the order of *)
(* the list, with order 0, 1, ..., n-1.                                      *)
C18_DefaultOrdering ==
    [][ (ret'.op = "add" /\ ret'.kind = "entry_id")
        => LET values == ret'.values
               mine   == { v \in db'.values : v.entry_id = ret'.eid }
           IN  /\ Cardinality(mine) = Len(values)
               /\ { <<v.value_content, v.order_num>> : v \in mine }
                     = { <<values[i].content,
                           IF "order" \in DOMAIN values[i] THEN values[i].order ELSE i - 1>> :
                         i \in 1..Len(values) }
               /\ ( /\ \A i \in 1..Len(values) : "order" \notin DOMAIN values[i]
                    /\ \A e \in db.entries : ~KeyIs(e, ret'.group, ret'.keyword) )
                  => \A res \in GetResults(db', ret'.group, ret'.keyword) :
                        /\ Len(res) = Len(values)
                        /\ \A i \in 1..Len(values) :
                              /\ res[i].content = values[i].content
                              /\ res[i].order = i - 1 ]_vars

\* get_qa has returned the three values of an add_qa that named no order, in
\* the order of its list
C18_Witness ==
    /\ ret.op = "get"
    /\ ret.out = << [type |-> "TEXT", content |-> "a", order |-> 0],
                    [type |-> "MARKDOWN", content |-> "c", order |-> 1],
                    [type |-> "TEXT", content |-> "a", order |-> 2] >>

----------------------------------------------------------------------------
\* the items of the value rows V by ascending order_num and, among equal
\* order_num, in the order the rows were inserted (ascending value_id, which
\* is also ascending entry_id)
RECURSIVE InInsertionOrder(_)
InInsertionOrder(V) ==
    IF V = {} THEN << >>
    ELSE LET first == CHOOSE v \in V :
                          \A w \in V : \/ v.order_num < w.order_num
                                        \/ /\ v.order_num = w.order_num
                                           /\ v.value_id <= w.value_id
         IN  <<ItemOf(first)>> \o InInsertionOrder(V \ {first})

(* C19. Deterministic tie-break: get_qa, and get_qa_by_group for each        *)
(* keyword, return values of equal order_num in the order they were          *)
(* inserted, whatever order the query gives rows of equal priority and       *)
(* order_num: the result is one list, fixed by the contents of the store.    *)
C19_TieBreak ==
    \A g \in Groups, k \in Keywords :
        LET expected == InInsertionOrder(ValuesOf(db, TopEntries(g, k)))
        IN  /\ \A res \in GetResults(db, g, k) : res = expected
            /\ \A m \in GroupResults(db, g) : k \in DOMAIN m => m[k] = expected

----------------------------------------------------------------------------
(* C20. Fresh entry ids: an add_qa that succeeds returns an id above every   *)
(* id an earlier add_qa returned. The committed AUTOINCREMENT counter of     *)
(* qa_entries is such a bound: an add_qa that succeeds leaves it at the id   *)
(* it returns, and no call (a delete_qa, a failed add_qa, a rollback) lowers *)
(* it; an add_qa that succeeds returns an id above it, held by no entry, and *)
(* above the id of the add_qa just before it.                                *)
C20_FreshIds ==
    [][ /\ disk'.seq_e >= disk.seq_e
        /\ (ret'.op = "add" /\ ret'.kind = "entry_id")
           => /\ ret'.eid > disk.seq_e
              /\ disk'.seq_e = ret'.eid
              /\ \A e \in db.entries \cup disk.entries : e.entry_id # ret'.eid
              /\ (ret.op = "add" /\ ret.kind = "entry_id") => ret'.eid > ret.eid ]_vars

\* an add_qa has returned id 2 after the entry of id 1, stored whole by the
\* add_qa that returned 1, was deleted
C20_Witness ==
    /\ ret.op = "add"
    /\ ret.kind = "entry_id"
    /\ ret.eid = 2
    /\ db.seq_v = 4
    /\ \A e \in db.entries : e.entry_id = 2

====
